---- MODULE Spec2Model ----
(***************************************************************************)
(* Note-driven trial state synchronisation of optuna-dashboard-hitl-pruner *)
(* (src/optuna_monitor/human_trial_monitor.py, HumanTrialStateMonitor).    *)
(*                                                                         *)
(* The study store (trial states, annotation versions and bodies) is       *)
(* shared by the dashboard, the optimizer and the monitor instances.  A    *)
(* step of a monitor is one store call together with the local code that   *)
(* follows it up to the next store call; the other actors interleave       *)
(* between the steps.                                                      *)
(***************************************************************************)
EXTENDS Integers, Sequences, FiniteSets, TLC

VARIABLES
    trialState,               \* store: trial number -> TrialState
    noteVer,                  \* store: trial number -> annotation version
    noteBody,                 \* store: trial number -> annotation body
    study_trials,             \* the trials the store holds
    study,                    \* self.study: the trials of the monitor's study
    vocabulary,               \* the bodies the reviewers write
    edits_left,               \* annotation edits still to come
    instances,                \* the monitor instances that were constructed
    dry_run,                  \* self.dry_run
    only_active_trials,       \* self.only_active_trials
    check_interval,           \* self.check_interval
    prune_pattern,            \* self.prune_pattern (as given to re.compile)
    fail_pattern,             \* self.fail_pattern
    running,                  \* self.running, per monitor
    pc,                       \* position of the monitor's thread
    processed_note_versions,  \* self.processed_note_versions (-1: no entry)
    trial_id_cache,           \* self._trial_id_cache (0: no entry)
    cached_system_attrs,      \* self._cached_system_attrs
    cache_age,                \* time.time() - self._cache_timestamp, capped
    trials_to_check,          \* rest of the cycle's listing
    excluded,                 \* the listed trials the cycle's filter left out
    current_note_version,     \* local of _check_and_process_trial
    new_state,                \* argument of _change_trial_state
    current_state,            \* local of _change_trial_state
    consecutive_errors,       \* local of monitor_loop
    raised,                   \* check_for_note_changes raised to monitor_loop
    slept,                    \* seconds of the last time.sleep of monitor_loop
    faults,                   \* store faults still to be injected
    engine_calls,             \* history: _change_trial_state invocations
    tell_calls,               \* history: study.tell calls issued
    log,                      \* history: log lines written by the engine
    cycle_err,                \* history: a store error or per-trial error hit this cycle
    settled,                  \* history: how the last cycle ended, "no" after an edit
    cycle_failures,           \* history: cycles in a row ended by a whole-cycle exception
    stop_calls,               \* history: calls of stop(), per monitor
    live_loops,               \* history: threads running monitor_loop, per monitor
    last_call,                \* history: the last of start() and stop() that returned, per monitor
    starts_pending            \* history: cycle starts in a row, with no edit between, that met the unprocessed command of a one-trial study

vars == <<trialState, noteVer, noteBody, study_trials, study, vocabulary, edits_left,
          instances, dry_run, only_active_trials,
          check_interval, prune_pattern, fail_pattern, running, pc,
          processed_note_versions, trial_id_cache, cached_system_attrs,
          cache_age, trials_to_check, excluded, current_note_version, new_state,
          current_state, consecutive_errors, raised, slept, faults,
          engine_calls, tell_calls, log, cycle_err, settled,
          cycle_failures, stop_calls, live_loops, starts_pending, last_call>>

histVars == <<engine_calls, tell_calls, log, cycle_err, settled>>
noteVars == <<noteVer, noteBody, edits_left>>
storeVars == <<trialState, noteVars>>
loopVars == <<consecutive_errors, raised, slept>>
trialLocals == <<current_note_version, new_state, current_state>>
lifeVars == <<cycle_failures, stop_calls, live_loops, starts_pending, last_call>>
configVars == <<study_trials, study, vocabulary, instances, dry_run, only_active_trials, check_interval,
                prune_pattern, fail_pattern>>

(***************************************************************************)
(* Bounds                                                                  *)
(***************************************************************************)
NumTrials == 2
MaxEdits == 2
MaxFaults == 1
MaxStops == 2

Trials == 1..NumTrials
Versions == 0..MaxEdits
Monitors == {1, 2}

(***************************************************************************)
(* Program constants                                                       *)
(***************************************************************************)
CACHE_TTL == 5
max_consecutive_errors == 5

TrialStates == {"WAITING", "RUNNING", "COMPLETE", "PRUNED", "FAIL"}
NoState == "None"

\* TrialState.is_finished()
is_finished(s) == s \in {"COMPLETE", "PRUNED", "FAIL"}

\* The identifier the store keeps for a trial number.
StoreTrialId(n) == n + 100
TrialIds == {StoreTrialId(n) : n \in Trials}
NumberOfId(id) == id - 100

(***************************************************************************)
(* Annotation bodies and the command patterns.  A body is a sequence of    *)
(* words; a pattern is a sequence of words searched for anywhere in the    *)
(* body, ignoring case.                                                    *)
(***************************************************************************)
Bodies == { <<>>, <<"prune">>, <<"FAIL">>, <<"ok">>, <<"ok", "PRUNE", "FAIL">> }

Upper(w) == CASE w = "prune" -> "PRUNE"
              [] w = "fail" -> "FAIL"
              [] OTHER -> w

\* re.compile(pattern, re.IGNORECASE).search(body)
Search(pattern, body) ==
    \E i \in 1..(Len(body) - Len(pattern) + 1) :
        \A k \in 1..Len(pattern) : Upper(body[i + k - 1]) = Upper(pattern[k])

\* Mutant: the FAIL pattern is tried first.
CommandTargetFailFirst(pp, fp, body) ==
    IF Search(fp, body) THEN "FAIL"
    ELSE IF Search(pp, body) THEN "PRUNED"
    ELSE NoState

\* Mutant: the FAIL branch asks for COMPLETE.
CommandTargetWrongFail(pp, fp, body) ==
    IF Search(pp, body) THEN "PRUNED"
    ELSE IF Search(fp, body) THEN "COMPLETE"
    ELSE NoState

\* The command branch of _check_and_process_trial: PRUNE is tried first.
CommandTarget(pp, fp, body) ==
    IF Search(pp, body) THEN "PRUNED"
    ELSE IF Search(fp, body) THEN "FAIL"
    ELSE NoState

\* Mutant: a version equal to the last processed one is inspected again.
IsNewVersionOrSame(v, last) == v >= last

\* Line 188: only a version above the last processed one is inspected.
IsNewVersion(v, last) == v > last

\* Mutant: the empty initial note is handled like any other note.
IsEmptyInitialNoteNever(note_body, last, v) == FALSE

\* Line 193: the empty note of a trial never seen before is passed over.
IsEmptyInitialNote(note_body, last, v) == note_body = <<>> /\ last = -1 /\ v = 0

\* Mutant: the version is recorded although the inspection raised.
VersionAfterErrorRecorded(last, v) == v

\* Lines 215-216: an error while a note is inspected is caught, and the
\* recorded version stays as it was.
VersionAfterError(last, v) == last

(***************************************************************************)
(* Study system attributes: the bulk metadata read in one call.            *)
(***************************************************************************)
NoAttrs == [valid |-> FALSE,
            ver   |-> [i \in TrialIds |-> 0],
            body  |-> [i \in TrialIds |-> <<>>]]

\* storage.get_study_system_attrs(study_id)
StoreAttrs == [valid |-> TRUE,
               ver   |-> [i \in TrialIds |-> noteVer[NumberOfId(i)]],
               body  |-> [i \in TrialIds |-> noteBody[NumberOfId(i)]]]

\* int(system_attrs.get(note_ver_key(trial_id), 0))
NoteVersion(attrs, id) == attrs.ver[id]

\* Mutant: the body is read from the store again instead of the snapshot.
NoteBodyOfLive(attrs, id) == noteBody[NumberOfId(id)]

\* get_note_from_system_attrs(system_attrs, trial_id)["body"]
NoteBodyOf(attrs, id) == attrs.body[id]

Min(a, b) == IF a < b THEN a ELSE b

\* The outcomes a store call can have: it returns, or (while faults remain
\* to be injected) it raises.
CallOutcomes == IF faults > 0 THEN {"ok", "raise"} ELSE {"ok"}

(***************************************************************************)
(* check_for_note_changes: which listed states are inspected.              *)
(***************************************************************************)
\* Mutant: the listing is not filtered.
changeable_statesAll == TrialStates

changeable_states ==
    IF only_active_trials THEN {"RUNNING", "WAITING"}
    ELSE {"RUNNING", "WAITING", "COMPLETE"}

RECURSIVE ListFromAllStudies(_, _)
\* Mutant: the listing gives the trials of every study in the store.
ListFromAllStudies(m, n) ==
    IF n > NumTrials THEN <<>>
    ELSE IF n \in study_trials /\ trialState[n] \in changeable_states
         THEN <<[number |-> n, state |-> trialState[n]]>> \o ListFromAllStudies(m, n + 1)
         ELSE ListFromAllStudies(m, n + 1)

RECURSIVE ListFrom(_, _)
\* [t for t in all_trials if t.state in changeable_states], in listing order
ListFrom(m, n) ==
    IF n > NumTrials THEN <<>>
    ELSE IF n \in study[m] /\ trialState[n] \in changeable_states
         THEN <<[number |-> n, state |-> trialState[n]]>> \o ListFrom(m, n + 1)
         ELSE ListFrom(m, n + 1)

\* The listed trials the filter leaves out (counted at lines 149-152).
Excluded(m) ==
    { [number |-> n, state |-> trialState[n]] :
      n \in {t \in study[m] : trialState[t] \notin changeable_states} }

(***************************************************************************)
(* _get_trial_id: the cache first, then the store.  0 stands for None.     *)
(***************************************************************************)
TrialIdResults(m, n) ==
    IF trial_id_cache[m][n] # 0 THEN {trial_id_cache[m][n]}
    ELSE {StoreTrialId(n)} \cup (IF faults > 0 THEN {0} ELSE {})

\* Mutant: a resolved identifier is not kept.
CacheAfterLookupNever(m, n, id) == trial_id_cache

\* The cache after a lookup that gave id.
CacheAfterLookup(m, n, id) ==
    IF id # 0 THEN [trial_id_cache EXCEPT ![m][n] = id] ELSE trial_id_cache

\* Whether the lookup that gave id used up a store fault.
LookupFault(m, n, id) == IF trial_id_cache[m][n] = 0 /\ id = 0 THEN 1 ELSE 0

\* Lines 210-212: the entry of a trial listed as finished is dropped.
CacheAfterCleanup(cache, m, trial) ==
    IF is_finished(trial.state) /\ cache[m][trial.number] # 0
    THEN [cache EXCEPT ![m][trial.number] = 0]
    ELSE cache

\* Mutant: the loop over the listed trials leaves when the flag is cleared.
NextTrialWhileRunning(m) ==
    /\ trials_to_check' = [trials_to_check EXCEPT ![m] =
                              IF running[m] THEN Tail(@) ELSE <<>>]
    /\ pc' = [pc EXCEPT ![m] = IF ~running[m] THEN "finished"
                               ELSE IF Len(trials_to_check[m]) > 1
                               THEN "check_trial" ELSE "end_cycle"]
    /\ current_note_version' = [current_note_version EXCEPT ![m] = 0]
    /\ new_state' = [new_state EXCEPT ![m] = NoState]
    /\ current_state' = [current_state EXCEPT ![m] = NoState]

\* The loop of check_for_note_changes moves on to the next listed trial.
NextTrial(m) ==
    /\ trials_to_check' = [trials_to_check EXCEPT ![m] = Tail(@)]
    /\ pc' = [pc EXCEPT ![m] = IF Len(trials_to_check[m]) > 1
                               THEN "check_trial" ELSE "end_cycle"]
    /\ current_note_version' = [current_note_version EXCEPT ![m] = 0]
    /\ new_state' = [new_state EXCEPT ![m] = NoState]
    /\ current_state' = [current_state EXCEPT ![m] = NoState]

\* Mutant: an error while one trial is processed ends the whole cycle.
AfterTrialErrorAborts(m) ==
    /\ trials_to_check' = [trials_to_check EXCEPT ![m] = <<>>]
    /\ pc' = [pc EXCEPT ![m] = "end_cycle"]
    /\ current_note_version' = [current_note_version EXCEPT ![m] = 0]
    /\ new_state' = [new_state EXCEPT ![m] = NoState]
    /\ current_state' = [current_state EXCEPT ![m] = NoState]

\* Lines 178-179, 215-216 and 159-161: a trial whose identifier is not found
\* or whose processing raised is left, and the loop goes on with the next.
AfterTrialError(m) == NextTrial(m)

\* Mutant: the version is not recorded after _change_trial_state returned.
AfterEngineNoRecord(m, cache) ==
    LET trial == Head(trials_to_check[m]) IN
    /\ UNCHANGED processed_note_versions
    /\ trial_id_cache' = CacheAfterCleanup(cache, m, trial)
    /\ NextTrial(m)

\* Mutant: the version after the inspected one is recorded.
AfterEngineAhead(m, cache) ==
    LET trial == Head(trials_to_check[m]) IN
    /\ processed_note_versions' =
           [processed_note_versions EXCEPT ![m][trial.number] = current_note_version[m] + 1]
    /\ trial_id_cache' = CacheAfterCleanup(cache, m, trial)
    /\ NextTrial(m)

\* Mutant: the entry is reset to version 0 after _change_trial_state returned.
AfterEngineReset(m, cache) ==
    LET trial == Head(trials_to_check[m]) IN
    /\ processed_note_versions' =
           [processed_note_versions EXCEPT ![m][trial.number] = 0]
    /\ trial_id_cache' = CacheAfterCleanup(cache, m, trial)
    /\ NextTrial(m)

\* Lines 207-212 after _change_trial_state returned: the version is recorded,
\* the cache entry of a trial listed as finished is dropped.
AfterEngine(m, cache) ==
    LET trial == Head(trials_to_check[m]) IN
    /\ processed_note_versions' =
           [processed_note_versions EXCEPT ![m][trial.number] = current_note_version[m]]
    /\ trial_id_cache' = CacheAfterCleanup(cache, m, trial)
    /\ NextTrial(m)

LogLine(m, event) ==
    [mon |-> m, number |-> Head(trials_to_check[m]).number,
     ver |-> current_note_version[m], event |-> event]

(***************************************************************************)
(* Initial state: __init__ has run for every constructed instance.         *)
(***************************************************************************)
InitStore ==
    /\ trialState = [t \in Trials |-> "WAITING"]
    /\ noteVer = [t \in Trials |-> 0]
    /\ noteBody = [t \in Trials |-> <<>>]

InitMonitors ==
    /\ running = [m \in Monitors |-> TRUE]
    /\ pc = [m \in Monitors |-> "nothread"]
    /\ processed_note_versions = [m \in Monitors |-> [t \in Trials |-> -1]]
    /\ trial_id_cache = [m \in Monitors |-> [t \in Trials |-> 0]]
    /\ cached_system_attrs = [m \in Monitors |-> NoAttrs]
    /\ cache_age = [m \in Monitors |-> CACHE_TTL + 1]
    /\ trials_to_check = [m \in Monitors |-> <<>>]
    /\ excluded = [m \in Monitors |-> {}]
    /\ current_note_version = [m \in Monitors |-> 0]
    /\ new_state = [m \in Monitors |-> NoState]
    /\ current_state = [m \in Monitors |-> NoState]
    /\ consecutive_errors = [m \in Monitors |-> 0]
    /\ raised = [m \in Monitors |-> FALSE]
    /\ slept = [m \in Monitors |-> 0]
    /\ engine_calls = [m \in Monitors |-> [t \in Trials |-> [v \in Versions |-> 0]]]
    /\ tell_calls = {}
    /\ log = {}
    /\ cycle_err = [m \in Monitors |-> FALSE]
    /\ settled = [m \in Monitors |-> "no"]
    /\ cycle_failures = [m \in Monitors |-> 0]
    /\ stop_calls = [m \in Monitors |-> 0]
    /\ live_loops = [m \in Monitors |-> 0]
    /\ starts_pending = [m \in Monitors |-> 0]
    /\ last_call = [m \in Monitors |-> "none"]

\* The defaults of __init__ and of main's arguments.
DefaultConfig ==
    /\ dry_run = FALSE
    /\ only_active_trials = FALSE
    /\ check_interval = 10
    /\ prune_pattern = <<"PRUNE">>
    /\ fail_pattern = <<"FAIL">>

\* One monitor with the default configuration on a study of NumTrials trials.
Init ==
    /\ InitStore
    /\ InitMonitors
    /\ DefaultConfig
    /\ study_trials = Trials
    /\ study = [m \in Monitors |-> Trials]
    /\ vocabulary = {<<>>, <<"prune">>, <<"FAIL">>}
    /\ edits_left = MaxEdits
    /\ instances = {1}
    /\ faults = MaxFaults

\* The same with --interval 2: below the 5 seconds the snapshot is kept.
InitFast ==
    /\ InitStore
    /\ InitMonitors
    /\ dry_run = FALSE
    /\ only_active_trials = FALSE
    /\ check_interval = 2
    /\ prune_pattern = <<"PRUNE">>
    /\ fail_pattern = <<"FAIL">>
    /\ study_trials = Trials
    /\ study = [m \in Monitors |-> Trials]
    /\ vocabulary = {<<>>, <<"prune">>}
    /\ edits_left = MaxEdits
    /\ instances = {1}
    /\ faults = MaxFaults

\* One monitor started with or without --dry-run.
InitDry ==
    /\ InitStore
    /\ InitMonitors
    /\ dry_run \in BOOLEAN
    /\ only_active_trials = FALSE
    /\ check_interval = 10
    /\ prune_pattern = <<"PRUNE">>
    /\ fail_pattern = <<"FAIL">>
    /\ study_trials = Trials
    /\ study = [m \in Monitors |-> Trials]
    /\ vocabulary = {<<>>, <<"prune">>, <<"FAIL">>}
    /\ edits_left = MaxEdits
    /\ instances = {1}
    /\ faults = 0

\* One monitor with the default configuration on a study of one trial.
InitLive ==
    /\ InitStore
    /\ InitMonitors
    /\ DefaultConfig
    /\ study_trials = {1}
    /\ study = [m \in Monitors |-> {1}]
    /\ vocabulary = {<<>>, <<"prune">>, <<"FAIL">>}
    /\ edits_left = MaxEdits
    /\ instances = {1}
    /\ faults = MaxFaults

\* One monitor on a study of one trial whose store can fail as many times as
\* monitor_loop counts consecutive errors.
InitOutage ==
    /\ InitStore
    /\ InitMonitors
    /\ DefaultConfig
    /\ study_trials = {1}
    /\ study = [m \in Monitors |-> {1}]
    /\ vocabulary = {<<"prune">>}
    /\ edits_left = 1
    /\ instances = {1}
    /\ faults = max_consecutive_errors

\* One monitor on a study of one trial, started and stopped by its harness.
InitLife ==
    /\ InitStore
    /\ InitMonitors
    /\ DefaultConfig
    /\ study_trials = {1}
    /\ study = [m \in Monitors |-> {1}]
    /\ vocabulary = {<<"prune">>}
    /\ edits_left = 1
    /\ instances = {1}
    /\ faults = MaxFaults

\* One monitor on a study of one trial whose reviewers write every kind of
\* body, started with the default --prune-pattern or with an empty one.
InitWords ==
    /\ InitStore
    /\ InitMonitors
    /\ dry_run = FALSE
    /\ only_active_trials = FALSE
    /\ check_interval = 10
    /\ prune_pattern \in {<<"PRUNE">>, <<>>}
    /\ fail_pattern = <<"FAIL">>
    /\ study_trials = {1}
    /\ study = [m \in Monitors |-> {1}]
    /\ vocabulary = Bodies
    /\ edits_left = MaxEdits
    /\ instances = {1}
    /\ faults = 0

\* One monitor started with --interval 2 on a study of one trial whose store
\* never fails; the reviewers write commands only.
InitQuick ==
    /\ InitStore
    /\ InitMonitors
    /\ dry_run = FALSE
    /\ only_active_trials = FALSE
    /\ check_interval = 2
    /\ prune_pattern = <<"PRUNE">>
    /\ fail_pattern = <<"FAIL">>
    /\ study_trials = {1}
    /\ study = [m \in Monitors |-> {1}]
    /\ vocabulary = {<<"prune">>, <<"FAIL">>}
    /\ edits_left = MaxEdits
    /\ instances = {1}
    /\ faults = 0

\* One monitor started with --only-active-trials on a study of one trial.
InitActive ==
    /\ InitStore
    /\ InitMonitors
    /\ dry_run = FALSE
    /\ only_active_trials = TRUE
    /\ check_interval = 10
    /\ prune_pattern = <<"PRUNE">>
    /\ fail_pattern = <<"FAIL">>
    /\ study_trials = {1}
    /\ study = [m \in Monitors |-> {1}]
    /\ vocabulary = {<<"prune">>, <<"FAIL">>}
    /\ edits_left = MaxEdits
    /\ instances = {1}
    /\ faults = 0

\* One monitor on a study of NumTrials trials, started with or without
\* --only-active-trials, with a store that does not fail.
InitPolicy ==
    /\ InitStore
    /\ InitMonitors
    /\ dry_run = FALSE
    /\ only_active_trials \in BOOLEAN
    /\ check_interval = 10
    /\ prune_pattern = <<"PRUNE">>
    /\ fail_pattern = <<"FAIL">>
    /\ study_trials = Trials
    /\ study = [m \in Monitors |-> Trials]
    /\ vocabulary = {<<"prune">>, <<"FAIL">>}
    /\ edits_left = MaxEdits
    /\ instances = {1}
    /\ faults = 0

\* Two studies of one trial each in one store, a monitor on each, as main
\* constructs them; the store can fail.  The trial of the first study is
\* complete when the monitors are constructed, the other one is running.
InitStudies ==
    /\ trialState = [t \in Trials |-> IF t = 1 THEN "COMPLETE" ELSE "RUNNING"]
    /\ noteVer = [t \in Trials |-> 0]
    /\ noteBody = [t \in Trials |-> <<>>]
    /\ InitMonitors
    /\ DefaultConfig
    /\ study_trials = {1, 2}
    /\ study = [m \in Monitors |-> {m}]
    /\ vocabulary = {<<"prune">>}
    /\ edits_left = MaxEdits
    /\ instances = {1, 2}
    /\ faults = MaxFaults

\* Two monitor instances polling the same study of one trial.
InitTwo ==
    /\ InitStore
    /\ InitMonitors
    /\ DefaultConfig
    /\ study_trials = {1}
    /\ study = [m \in Monitors |-> {1}]
    /\ vocabulary = {<<"prune">>, <<"FAIL">>}
    /\ edits_left = MaxEdits
    /\ instances = {1, 2}
    /\ faults = 0

(***************************************************************************)
(* The other actors on the store.                                          *)
(***************************************************************************)
\* The dashboard saves a note: the version goes up by one with the new body.
DashboardEdit(t, b) ==
    /\ t \in study_trials
    /\ b \in vocabulary
    /\ edits_left > 0
    /\ edits_left' = edits_left - 1
    /\ noteVer' = [noteVer EXCEPT ![t] = @ + 1]
    /\ noteBody' = [noteBody EXCEPT ![t] = b]
    /\ settled' = [m \in Monitors |-> "no"]
    /\ starts_pending' = [m \in Monitors |-> 0]
    /\ UNCHANGED <<trialState, configVars, cycle_failures, stop_calls, live_loops, last_call, running, pc, processed_note_versions,
                   trial_id_cache, cached_system_attrs, cache_age, trials_to_check,
                   excluded, trialLocals, loopVars, faults, engine_calls,
                   tell_calls, log, cycle_err>>

\* The optimizer moves a trial along its own lifecycle.
OptimizerStep(t, s) ==
    /\ t \in study_trials
    /\ IF trialState[t] = "WAITING" THEN s = "RUNNING"
       ELSE trialState[t] = "RUNNING" /\ s \in {"COMPLETE", "PRUNED", "FAIL"}
    /\ trialState' = [trialState EXCEPT ![t] = s]
    /\ UNCHANGED <<noteVars, configVars, lifeVars, running, pc, processed_note_versions,
                   trial_id_cache, cached_system_attrs, cache_age, trials_to_check,
                   excluded, trialLocals, loopVars, faults, histVars>>

(***************************************************************************)
(* start and stop, called by the deployment harness.                       *)
(***************************************************************************)
\* Mutant: start() takes the thread for dead whatever it does.
thread_is_aliveNever(m) == FALSE

thread_is_alive(m) == pc[m] \notin {"nothread", "finished"}

Start(m) ==
    /\ IF ~thread_is_alive(m)
       THEN /\ running' = [running EXCEPT ![m] = TRUE]
            /\ pc' = [pc EXCEPT ![m] = "while"]
            /\ consecutive_errors' = [consecutive_errors EXCEPT ![m] = 0]
            /\ live_loops' = [live_loops EXCEPT ![m] = @ + 1]
       ELSE UNCHANGED <<running, pc, consecutive_errors, live_loops>>
    /\ last_call' = [last_call EXCEPT ![m] = "start"]
    /\ UNCHANGED <<storeVars, configVars, cycle_failures, stop_calls, starts_pending, processed_note_versions, trial_id_cache,
                   cached_system_attrs, cache_age, trials_to_check, excluded,
                   trialLocals, raised, slept, faults, histVars>>

\* Mutant: stop() flips the flag instead of clearing it.
StopToggles(m) ==
    /\ stop_calls[m] < MaxStops
    /\ stop_calls' = [stop_calls EXCEPT ![m] = @ + 1]
    /\ last_call' = [last_call EXCEPT ![m] = "stop"]
    /\ running' = [running EXCEPT ![m] = ~@]
    /\ UNCHANGED <<storeVars, configVars, cycle_failures, live_loops, starts_pending, pc,
                   processed_note_versions, trial_id_cache, cached_system_attrs,
                   cache_age, trials_to_check, excluded, trialLocals, loopVars,
                   faults, histVars>>

\* The flag is cleared; the bounded join that follows changes nothing.
Stop(m) ==
    /\ stop_calls[m] < MaxStops
    /\ stop_calls' = [stop_calls EXCEPT ![m] = @ + 1]
    /\ last_call' = [last_call EXCEPT ![m] = "stop"]
    /\ running' = [running EXCEPT ![m] = FALSE]
    /\ UNCHANGED <<storeVars, configVars, cycle_failures, live_loops, starts_pending, pc, processed_note_versions,
                   trial_id_cache, cached_system_attrs, cache_age, trials_to_check,
                   excluded, trialLocals, loopVars, faults, histVars>>

(***************************************************************************)
(* monitor_loop and check_for_note_changes.                                *)
(***************************************************************************)
\* Mutant: the loop does not look at the flag.
LoopContinuesAlways(m) == TRUE

\* Line 299: the condition of the while loop.
LoopContinues(m) == running[m]

\* History: the store holds, as the latest annotation committed
\* for the only trial of the study, which is changeable, a command that
\* monitor m has not handed to _change_trial_state.  (With one trial the
\* command met at successive cycle starts without an edit between is the
\* same one.)
CommandPending(m) ==
    \E t \in study[m] :
        /\ study[m] = {t}
        /\ noteVer[t] > 0
        /\ trialState[t] \in changeable_states
        /\ CommandTarget(prune_pattern, fail_pattern, noteBody[t]) # NoState
        /\ engine_calls[m][t][noteVer[t]] = 0

\* while self.running
WhileTest(m) ==
    /\ pc[m] = "while"
    /\ pc' = [pc EXCEPT ![m] = IF LoopContinues(m) THEN "fetch_attrs" ELSE "finished"]
    /\ live_loops' = [live_loops EXCEPT ![m] = IF LoopContinues(m) THEN @ ELSE @ - 1]
    /\ starts_pending' = [starts_pending EXCEPT ![m] =
           IF ~LoopContinues(m) THEN @
           ELSE IF CommandPending(m) THEN Min(@ + 1, 3) ELSE 0]
    /\ UNCHANGED <<storeVars, configVars, cycle_failures, stop_calls, last_call, running, processed_note_versions,
                   trial_id_cache, cached_system_attrs, cache_age, trials_to_check,
                   excluded, trialLocals, loopVars, faults, histVars>>

\* Mutant: a whole-cycle exception escapes and ends the thread.
AfterCycleErrorDies(m) == "finished"

\* Lines 163-165: a whole-cycle exception is caught and logged, and
\* check_for_note_changes returns to monitor_loop.
AfterCycleError(m) == "end_cycle"

\* The count of cycles in a row that ended at lines 163-165.
OneMoreFailure(m) ==
    [cycle_failures EXCEPT ![m] = Min(@ + 1, max_consecutive_errors)]

\* Mutant: a snapshot once fetched is reused for ever.
SnapshotExpiredNever(m) == ~cached_system_attrs[m].valid

\* Line 128: there is no snapshot, or it is older than the 5 seconds.
SnapshotExpired(m) == ~cached_system_attrs[m].valid \/ cache_age[m] > CACHE_TTL

\* Lines 127-133: the snapshot is fetched, or the cached one is reused.  A
\* raising store call is caught at line 163 and ends the cycle.
FetchAttrs(m) ==
    /\ pc[m] = "fetch_attrs"
    /\ IF SnapshotExpired(m)
       THEN \E r \in CallOutcomes :
              IF r = "ok"
              THEN /\ cached_system_attrs' = [cached_system_attrs EXCEPT ![m] = StoreAttrs]
                   /\ cache_age' = [cache_age EXCEPT ![m] = 0]
                   /\ pc' = [pc EXCEPT ![m] = "get_trials"]
                   /\ UNCHANGED <<faults, cycle_err, cycle_failures>>
              ELSE /\ pc' = [pc EXCEPT ![m] = AfterCycleError(m)]
                   /\ faults' = faults - 1
                   /\ cycle_err' = [cycle_err EXCEPT ![m] = TRUE]
                   /\ cycle_failures' = OneMoreFailure(m)
                   /\ UNCHANGED <<cached_system_attrs, cache_age>>
       ELSE /\ pc' = [pc EXCEPT ![m] = "get_trials"]
            /\ UNCHANGED <<cached_system_attrs, cache_age, faults, cycle_err,
                           cycle_failures>>
    /\ UNCHANGED <<storeVars, configVars, stop_calls, live_loops, starts_pending, last_call, running, processed_note_versions,
                   trial_id_cache, trials_to_check, excluded, trialLocals, loopVars,
                   engine_calls, tell_calls, log, settled>>

\* Lines 136-147: the trials are listed and filtered.
GetTrials(m) ==
    /\ pc[m] = "get_trials"
    /\ \E r \in CallOutcomes :
         IF r = "ok"
         THEN /\ trials_to_check' = [trials_to_check EXCEPT ![m] = ListFrom(m, 1)]
              /\ excluded' = [excluded EXCEPT ![m] = Excluded(m)]
              /\ pc' = [pc EXCEPT ![m] = IF ListFrom(m, 1) # <<>>
                                         THEN "check_trial" ELSE "end_cycle"]
              /\ cycle_failures' = [cycle_failures EXCEPT ![m] = 0]
              /\ UNCHANGED <<faults, cycle_err>>
         ELSE /\ pc' = [pc EXCEPT ![m] = AfterCycleError(m)]
              /\ faults' = faults - 1
              /\ cycle_err' = [cycle_err EXCEPT ![m] = TRUE]
              /\ cycle_failures' = OneMoreFailure(m)
              /\ UNCHANGED <<trials_to_check, excluded>>
    /\ UNCHANGED <<storeVars, configVars, stop_calls, live_loops, starts_pending, last_call, running, processed_note_versions,
                   trial_id_cache, cached_system_attrs, cache_age, trialLocals,
                   loopVars, engine_calls, tell_calls, log, settled>>

\* Mutant: a trial whose identifier was not found has its annotation marked
\* as seen.
AfterNoTrialIdConsumes(m) ==
    LET n == Head(trials_to_check[m]).number IN
    /\ processed_note_versions' =
           [processed_note_versions EXCEPT
              ![m][n] = NoteVersion(cached_system_attrs[m], StoreTrialId(n))]
    /\ AfterTrialError(m)
    /\ UNCHANGED <<trial_id_cache, engine_calls>>

\* Lines 176-179: _get_trial_id gave None; the method returns at once.
AfterNoTrialId(m) ==
    /\ AfterTrialError(m)
    /\ UNCHANGED <<processed_note_versions, trial_id_cache, engine_calls>>

\* History: _get_trial_id (line 176) asks the store for the identifier of a
\* listed trial whose version then turns out not to be new (line 188).
LookupOnSkip(m) ==
    LET n == Head(trials_to_check[m]).number
        v == NoteVersion(cached_system_attrs[m], StoreTrialId(n))
    IN IF trial_id_cache[m][n] = 0 /\ ~IsNewVersion(v, processed_note_versions[m][n])
       THEN {[mon |-> m, number |-> n, ver |-> v, event |-> "lookup_on_skip"]}
       ELSE {}

\* _check_and_process_trial up to the call of _change_trial_state (or to its
\* end when no command is found).
CheckTrial(m) ==
    /\ pc[m] = "check_trial"
    /\ LET trial == Head(trials_to_check[m])
           n == trial.number
           attrs == cached_system_attrs[m]
           last == processed_note_versions[m][n]
       IN
       \E id \in TrialIdResults(m, n) :
         IF id = 0
         THEN \* line 179: no trial_id, the trial is left for the next cycle
              /\ faults' = faults - 1
              /\ cycle_err' = [cycle_err EXCEPT ![m] = TRUE]
              /\ AfterNoTrialId(m)
         ELSE
           LET v == NoteVersion(attrs, id)
               cache == CacheAfterLookup(m, n, id)
           IN
           IF IsNewVersion(v, last)
           THEN \E r \in CallOutcomes :
                  IF r = "raise"
                  THEN \* the extraction raises: caught at line 215
                       /\ faults' = faults - 1
                       /\ cycle_err' = [cycle_err EXCEPT ![m] = TRUE]
                       /\ processed_note_versions' =
                              [processed_note_versions EXCEPT
                                 ![m][n] = VersionAfterError(last, v)]
                       /\ trial_id_cache' = cache
                       /\ AfterTrialError(m)
                       /\ UNCHANGED engine_calls
                  ELSE
                    LET note_body == NoteBodyOf(attrs, id)
                        target == CommandTarget(prune_pattern, fail_pattern, note_body)
                    IN
                    IF IsEmptyInitialNote(note_body, last, v)
                    THEN /\ trial_id_cache' = CacheAfterCleanup(cache, m, trial)
                         /\ NextTrial(m)
                         /\ UNCHANGED <<processed_note_versions, engine_calls,
                                        faults, cycle_err>>
                    ELSE IF target # NoState
                    THEN \* lines 200-205: _change_trial_state is entered
                         /\ pc' = [pc EXCEPT ![m] = "read_state"]
                         /\ current_note_version' = [current_note_version EXCEPT ![m] = v]
                         /\ new_state' = [new_state EXCEPT ![m] = target]
                         /\ engine_calls' = [engine_calls EXCEPT ![m][n][v] = @ + 1]
                         /\ trial_id_cache' = cache
                         /\ UNCHANGED <<processed_note_versions, trials_to_check,
                                        current_state, faults, cycle_err>>
                    ELSE \* no command: line 208
                         /\ processed_note_versions' =
                                [processed_note_versions EXCEPT ![m][n] = v]
                         /\ trial_id_cache' = CacheAfterCleanup(cache, m, trial)
                         /\ NextTrial(m)
                         /\ UNCHANGED <<engine_calls, faults, cycle_err>>
           ELSE \* the version is not new
                /\ trial_id_cache' = CacheAfterCleanup(cache, m, trial)
                /\ NextTrial(m)
                /\ UNCHANGED <<processed_note_versions, engine_calls, faults, cycle_err>>
    /\ log' = log \cup LookupOnSkip(m)
    /\ UNCHANGED <<storeVars, configVars, lifeVars, running, cached_system_attrs, cache_age,
                   excluded, loopVars, tell_calls, settled>>

\* Mutant: the engine takes the state of the trial object from the listing.
StateReadsListed(m, n) ==
    { [id |-> id, r |-> r,
       state |-> IF id = 0 \/ r = "raise" THEN NoState
                 ELSE Head(trials_to_check[m]).state] :
      id \in TrialIdResults(m, n), r \in CallOutcomes }

\* _get_trial_state_from_storage: the state read from the store (NoState
\* when the identifier or the trial cannot be read).
StateReads(m, n) ==
    { [id |-> id, r |-> r,
       state |-> IF id = 0 \/ r = "raise" THEN NoState ELSE trialState[n]] :
      id \in TrialIdResults(m, n), r \in CallOutcomes }

ReadFaults(m, n, rd) ==
    LookupFault(m, n, rd.id) + (IF rd.id # 0 /\ rd.r = "raise" THEN 1 ELSE 0)

\* Mutant: a state that could not be read does not hold the engine back.
EngineDecisionBlind(st, target, dry) ==
    IF st = target THEN "already"
    ELSE IF st \notin {NoState, "RUNNING", "WAITING", "COMPLETE"} THEN "illegal"
    ELSE IF dry THEN "dry_run"
    ELSE "tell"

\* Mutant: neither the same-state test nor the legality test is made.
EngineDecisionNoGuards(st, target, dry) ==
    IF st = NoState THEN "no_state"
    ELSE IF dry THEN "dry_run"
    ELSE "tell"

\* Mutant: the legality test lets every trial state through.
EngineDecisionAnyState(st, target, dry) ==
    IF st = NoState THEN "no_state"
    ELSE IF st = target THEN "already"
    ELSE IF st \notin TrialStates THEN "illegal"
    ELSE IF dry THEN "dry_run"
    ELSE "tell"

\* Mutant: the dry-run flag is not looked at.
EngineDecisionIgnoreDry(st, target, dry) ==
    IF st = NoState THEN "no_state"
    ELSE IF st = target THEN "already"
    ELSE IF st \notin {"RUNNING", "WAITING", "COMPLETE"} THEN "illegal"
    ELSE "tell"

\* What _change_trial_state does with the state it read, lines 246-265.
EngineDecision(st, target, dry) ==
    IF st = NoState THEN "no_state"
    ELSE IF st = target THEN "already"
    ELSE IF st \notin {"RUNNING", "WAITING", "COMPLETE"} THEN "illegal"
    ELSE IF dry THEN "dry_run"
    ELSE "tell"

\* _change_trial_state, lines 242-265: read the state and decide.
ReadState(m) ==
    /\ pc[m] = "read_state"
    /\ LET n == Head(trials_to_check[m]).number IN
       \E rd \in StateReads(m, n) :
         LET cache == CacheAfterLookup(m, n, rd.id)
             d == EngineDecision(rd.state, new_state[m], dry_run)
         IN
         /\ rd.id = 0 => rd.r = "ok"
         /\ faults >= ReadFaults(m, n, rd)
         /\ faults' = faults - ReadFaults(m, n, rd)
         /\ IF d = "tell"
            THEN /\ current_state' = [current_state EXCEPT ![m] = rd.state]
                 /\ pc' = [pc EXCEPT ![m] = "tell"]
                 /\ trial_id_cache' = cache
                 /\ UNCHANGED <<processed_note_versions, trials_to_check,
                                current_note_version, new_state, log>>
            ELSE /\ log' = log \cup {LogLine(m, d)}
                 /\ AfterEngine(m, cache)
    /\ UNCHANGED <<storeVars, configVars, lifeVars, running, cached_system_attrs, cache_age,
                   excluded, loopVars, engine_calls, tell_calls, cycle_err, settled>>

\* The call of study.tell issued at line 270.
TellCall(m) ==
    [mon |-> m, number |-> Head(trials_to_check[m]).number,
     ver |-> current_note_version[m], state |-> new_state[m],
     read |-> current_state[m]]

\* Mutant: after study.tell raised the engine goes on to the verification.
AfterTellErrorVerifies(m) ==
    /\ pc' = [pc EXCEPT ![m] = "verify"]
    /\ UNCHANGED <<processed_note_versions, trial_id_cache, trials_to_check,
                   trialLocals>>

\* Lines 272-275: study.tell raised; the engine returns without verifying
\* and _check_and_process_trial goes on at line 207.
AfterTellError(m) == AfterEngine(m, trial_id_cache)

\* How study.tell can end: it applies the state, it raises for a fault, or the
\* store refuses because the trial is no longer RUNNING there.
TellOutcomes(m) ==
    CallOutcomes \cup
    (IF trialState[Head(trials_to_check[m]).number] # "RUNNING" THEN {"refuse"} ELSE {})

\* Mutant: the state change also empties the trial's note.
TellWriteClearsNote(m) ==
    LET n == Head(trials_to_check[m]).number IN
    /\ trialState' = [trialState EXCEPT ![n] = new_state[m]]
    /\ noteBody' = [noteBody EXCEPT ![n] = <<>>]
    /\ UNCHANGED <<noteVer, edits_left>>

\* What a study.tell call that returns writes to the store: the state of
\* the trial, nothing else.
TellWrite(m) ==
    /\ trialState' = [trialState EXCEPT
                         ![Head(trials_to_check[m]).number] = new_state[m]]
    /\ UNCHANGED noteVars

\* Lines 269-275: study.tell(trial_number, state=new_state, values=None).
Tell(m) ==
    /\ pc[m] = "tell"
    /\ tell_calls' = tell_calls \cup {TellCall(m)}
    /\ \E r \in TellOutcomes(m) :
         IF r = "ok"
         THEN /\ TellWrite(m)
              /\ pc' = [pc EXCEPT ![m] = "verify"]
              /\ UNCHANGED <<processed_note_versions, trial_id_cache,
                             trials_to_check, trialLocals, faults, log>>
         ELSE /\ log' = log \cup {LogLine(m, "tell_error")}
              /\ faults' = IF r = "raise" THEN faults - 1 ELSE faults
              /\ AfterTellError(m)
              /\ UNCHANGED <<trialState, noteVars>>
    /\ UNCHANGED <<configVars, lifeVars, running, cached_system_attrs, cache_age,
                   excluded, loopVars, engine_calls, cycle_err, settled>>

\* Mutant: after the verification the engine calls study.tell once more.
AfterVerifyTellsAgain(m, cache) ==
    /\ pc' = [pc EXCEPT ![m] = "tell"]
    /\ trial_id_cache' = cache
    /\ UNCHANGED <<processed_note_versions, trials_to_check, trialLocals>>

\* Lines 281-286 and 207-212: whatever the verification logged, the engine
\* returns and _check_and_process_trial records the version.
AfterVerify(m, cache) == AfterEngine(m, cache)

\* Lines 281-286: what the verification logs.
VerifyEvent(updated_state, target) ==
    IF updated_state = target THEN "verified"
    ELSE IF updated_state # NoState THEN "verify_mismatch"
    ELSE "could_not_verify"

\* Lines 277-286: the state is read again and the outcome is logged.
Verify(m) ==
    /\ pc[m] = "verify"
    /\ LET n == Head(trials_to_check[m]).number IN
       \E rd \in StateReads(m, n) :
         /\ rd.id = 0 => rd.r = "ok"
         /\ faults >= ReadFaults(m, n, rd)
         /\ faults' = faults - ReadFaults(m, n, rd)
         /\ log' = log \cup {LogLine(m, VerifyEvent(rd.state, new_state[m]))}
         /\ AfterVerify(m, CacheAfterLookup(m, n, rd.id))
    /\ UNCHANGED <<storeVars, configVars, lifeVars, running, cached_system_attrs, cache_age,
                   excluded, loopVars, engine_calls, tell_calls, cycle_err, settled>>

\* No annotation was edited since the monitor's snapshot was fetched.
SnapshotCurrent(m) ==
    /\ cached_system_attrs[m].valid
    /\ cached_system_attrs[m].ver = StoreAttrs.ver

\* Mutant: the loop goes round without a pause.
LoopPauseNone(m) == 0

\* monitor_loop, lines 303-323: the pause after check_for_note_changes.
LoopPause(m) ==
    IF raised[m]
    THEN IF consecutive_errors[m] + 1 >= max_consecutive_errors
         THEN check_interval * 10 ELSE check_interval * 2
    ELSE check_interval

\* monitor_loop, lines 303-323, after check_for_note_changes came back.
EndCycle(m) ==
    /\ pc[m] = "end_cycle"
    /\ LET cooldown == raised[m] /\ consecutive_errors[m] + 1 >= max_consecutive_errors IN
       /\ consecutive_errors' = [consecutive_errors EXCEPT ![m] =
              IF raised[m] /\ ~cooldown THEN @ + 1 ELSE 0]
       /\ trial_id_cache' = IF cooldown
                            THEN [trial_id_cache EXCEPT ![m] = [t \in Trials |-> 0]]
                            ELSE trial_id_cache
       /\ cached_system_attrs' = IF cooldown
                                 THEN [cached_system_attrs EXCEPT ![m] = NoAttrs]
                                 ELSE cached_system_attrs
    /\ slept' = [slept EXCEPT ![m] = LoopPause(m)]
    /\ cache_age' = [cache_age EXCEPT ![m] = Min(@ + LoopPause(m), CACHE_TTL + 1)]
    /\ raised' = [raised EXCEPT ![m] = FALSE]
    /\ settled' = [settled EXCEPT ![m] =
                      IF SnapshotCurrent(m)
                      THEN (IF cycle_err[m] THEN "ran" ELSE "clean")
                      ELSE "no"]
    /\ excluded' = [excluded EXCEPT ![m] = {}]
    /\ cycle_err' = [cycle_err EXCEPT ![m] = FALSE]
    /\ pc' = [pc EXCEPT ![m] = "while"]
    /\ UNCHANGED <<storeVars, configVars, lifeVars, running, processed_note_versions,
                   trials_to_check, trialLocals, faults, engine_calls,
                   tell_calls, log>>

(***************************************************************************)
(* Specifications                                                          *)
(***************************************************************************)
\* One monitor with the default configuration, started once.
Next ==
    \/ \E t \in Trials, b \in Bodies : DashboardEdit(t, b)
    \/ \E t \in Trials, s \in TrialStates : OptimizerStep(t, s)
    \/ \E m \in instances : Start(m)
    \/ \E m \in instances : WhileTest(m)
    \/ \E m \in instances : FetchAttrs(m)
    \/ \E m \in instances : GetTrials(m)
    \/ \E m \in instances : CheckTrial(m)
    \/ \E m \in instances : ReadState(m)
    \/ \E m \in instances : Tell(m)
    \/ \E m \in instances : Verify(m)
    \/ \E m \in instances : EndCycle(m)

Spec == Init /\ [][Next]_vars

SpecFast == InitFast /\ [][Next]_vars

SpecDry == InitDry /\ [][Next]_vars

SpecTwo == InitTwo /\ [][Next]_vars

SpecWords == InitWords /\ [][Next]_vars

SpecActive == InitActive /\ [][Next]_vars

SpecPolicy == InitPolicy /\ [][Next]_vars

SpecOutage == InitOutage /\ [][Next]_vars

SpecQuick == InitQuick /\ [][Next]_vars

\* start() has been called and the daemon thread keeps being scheduled.
MonitorRuns(m) ==
    \/ Start(m)
    \/ WhileTest(m)
    \/ FetchAttrs(m)
    \/ GetTrials(m)
    \/ CheckTrial(m)
    \/ ReadState(m)
    \/ Tell(m)
    \/ Verify(m)
    \/ EndCycle(m)

\* The steps of the thread that runs monitor_loop.
LoopSteps(m) ==
    \/ WhileTest(m)
    \/ FetchAttrs(m)
    \/ GetTrials(m)
    \/ CheckTrial(m)
    \/ ReadState(m)
    \/ Tell(m)
    \/ Verify(m)
    \/ EndCycle(m)

\* The harness calls start() and stop() at any time.
NextLife ==
    \/ Next
    \/ \E m \in instances : Stop(m)

\* The thread of monitor_loop keeps being scheduled; start() and stop() are
\* called whenever the harness decides.
SpecLife == InitLife /\ [][NextLife]_vars /\ WF_vars(LoopSteps(1))

SpecLive == InitLive /\ [][Next]_vars /\ WF_vars(MonitorRuns(1))

\* One monitor per study.  The thread of monitor 2 keeps being scheduled;
\* the thread of monitor 1 may hang in a store call for ever.
SpecStudies == InitStudies /\ [][Next]_vars /\ WF_vars(MonitorRuns(2))

(***************************************************************************)
(* Properties                                                              *)
(***************************************************************************)
\* The trial _change_trial_state is working on.
EngineTrial(m) == Head(trials_to_check[m]).number

\* The step in which monitor m reads the state and decides.
EngineDecides(m) == pc[m] = "read_state" /\ pc'[m] # "read_state"

TellsFor(m, n, v) == {c \in tell_calls : c.mon = m /\ c.number = n /\ c.ver = v}

\* C1: for any trial and any annotation version, one monitor enters
\* _change_trial_state at most once, however many cycles observe that version.
C1_AtMostOncePerVersion ==
    \A m \in instances, t \in Trials, v \in Versions : engine_calls[m][t][v] <= 1

\* C1 witness: a later cycle is looking at a trial whose current version was
\* already handed to the engine once.
C1_Witness ==
    /\ pc[1] = "check_trial"
    /\ LET t == Head(trials_to_check[1]).number
           v == NoteVersion(cached_system_attrs[1], StoreTrialId(t))
       IN /\ engine_calls[1][t][v] = 1
          /\ processed_note_versions[1][t] = v

\* C2 as stated: once a cycle has run and no annotation was edited since its
\* snapshot was taken, the next cycle makes no transition attempt, also when
\* the earlier cycle hit a lookup failure or another error.
C2_Original ==
    \A m \in instances : pc[m] = "read_state" => settled[m] = "no"

\* C2 amended: once a cycle has run without a whole-cycle exception, lookup
\* failure or per-trial error, and no annotation was edited since the snapshot
\* it used was fetched, the next cycle makes no transition attempt.
C2_Idempotent ==
    \A m \in instances : pc[m] = "read_state" => settled[m] # "clean"

\* C2 witness: a second cycle has gone through a listed trial that carries a
\* command, after a clean first cycle and without an edit, with no attempt.
C2_Witness ==
    /\ pc[1] = "end_cycle"
    /\ settled[1] = "clean"
    /\ ~cycle_err[1]
    /\ \E t \in study_trials :
         /\ trialState[t] \in changeable_states
         /\ noteVer[t] > 0
         /\ CommandTarget(prune_pattern, fail_pattern, noteBody[t]) # NoState

\* C3: processed_note_versions[trial] never decreases, also in cycles that
\* reuse the cached snapshot.
C3_VersionMonotone ==
    [][\A m \in instances, t \in Trials :
         processed_note_versions'[m][t] >= processed_note_versions[m][t]]_vars

\* C3 witness: a cycle works on a reused snapshot that is older than the
\* store, for a trial whose version was recorded before.
C3_Witness ==
    /\ pc[1] = "check_trial"
    /\ cache_age[1] > 0
    /\ \E t \in study_trials :
         /\ processed_note_versions[1][t] >= 1
         /\ NoteVersion(cached_system_attrs[1], StoreTrialId(t)) < noteVer[t]

\* C4: every study.tell call the monitor issues asks for PRUNED or FAIL.
C4_TargetsPrunedOrFailed ==
    \A c \in tell_calls : c.state \in {"PRUNED", "FAIL"}

\* C4 witness: calls for both targets were issued.
C4_Witness ==
    /\ \E c \in tell_calls : c.state = "PRUNED"
    /\ \E c \in tell_calls : c.state = "FAIL"

\* C5: when the state the engine reads equals the requested state, no
\* study.tell call is issued.
C5_NoOpOnSameState ==
    /\ [](\A c \in tell_calls : c.read # c.state)
    /\ [][\A m \in instances :
            (EngineDecides(m) /\ trialState[EngineTrial(m)] = new_state[m])
            => (pc'[m] # "tell" /\ tell_calls' = tell_calls
                /\ trialState' = trialState)]_vars

\* C5 witness: the engine found a trial already in the requested state and
\* issued nothing for that version.
C5_Witness ==
    \E l \in log : l.event = "already" /\ TellsFor(l.mon, l.number, l.ver) = {}

\* C6: when the state the engine reads is none of RUNNING, WAITING, COMPLETE,
\* no study.tell call is issued and the trial's state stays as it is.
C6_IllegalRejected ==
    /\ [](\A c \in tell_calls : c.read \in {"RUNNING", "WAITING", "COMPLETE"})
    /\ [][\A m \in instances :
            (EngineDecides(m)
             /\ trialState[EngineTrial(m)] \notin {"RUNNING", "WAITING", "COMPLETE"})
            => (pc'[m] # "tell" /\ tell_calls' = tell_calls
                /\ trialState' = trialState)]_vars

\* C6 witness: FAIL was asked for a trial that is PRUNED, and was refused.
C6_Witness ==
    \E l \in log :
        /\ l.event = "illegal"
        /\ trialState[l.number] = "PRUNED"
        /\ CommandTarget(prune_pattern, fail_pattern, noteBody[l.number]) = "FAIL"
        /\ noteVer[l.number] = l.ver
        /\ TellsFor(l.mon, l.number, l.ver) = {}

\* C7: with dry_run no study.tell call is ever issued and no step of the
\* monitor changes a trial's state, while the intended change is logged for
\* the annotation version.
C7_DryRunPurity ==
    /\ [](dry_run => tell_calls = {})
    /\ [][(dry_run /\ pc' # pc) => trialState' = trialState]_vars
    /\ [][\A m \in instances :
            (dry_run /\ EngineDecides(m)
             /\ trialState[EngineTrial(m)] \in {"RUNNING", "WAITING", "COMPLETE"}
             /\ trialState[EngineTrial(m)] # new_state[m])
            => LogLine(m, "dry_run") \in log']_vars

\* C7 witness: a RUNNING trial annotated with a command was handed to the
\* engine in dry-run mode, the change was logged and the trial is RUNNING.
C7_Witness ==
    /\ dry_run
    /\ pc[1] = "end_cycle"
    /\ \E l \in log :
         /\ l.event = "dry_run"
         /\ trialState[l.number] = "RUNNING"
         /\ processed_note_versions[l.mon][l.number] = l.ver

\* C8: a trial that a detector pass lists as PRUNED or FAIL has no entry in
\* the identifier cache when that pass ends.
C8_CacheEviction ==
    \A m \in instances :
        pc[m] = "end_cycle" =>
            \A e \in excluded[m] :
                e.state \in {"PRUNED", "FAIL"} => trial_id_cache[m][e.number] = 0

\* The latest annotation of trial t has version v and holds a command.
LatestCommand(t, v) ==
    /\ noteVer[t] = v
    /\ CommandTarget(prune_pattern, fail_pattern, noteBody[t]) # NoState

\* C9: while the monitor loop keeps running, a command in the latest
\* annotation of a trial that stays changeable is eventually handed to
\* _change_trial_state, and the monitor never records the latest version of a
\* command annotation as seen without having handed it over.
C9_NeverLost ==
    /\ [](\A t \in study_trials, v \in Versions :
            (LatestCommand(t, v) /\ processed_note_versions[1][t] = v)
            => engine_calls[1][t][v] >= 1)
    /\ \A t \in {1}, v \in Versions :
            LatestCommand(t, v)
            ~> \/ engine_calls[1][t][v] >= 1
               \/ trialState[t] \notin changeable_states
               \/ noteVer[t] # v

\* C9 witness: version 1 was never handed over, the command in the latest
\* version 2 was, after a store fault on the way, and the trial was changeable.
C9_Witness ==
    /\ LatestCommand(1, 2)
    /\ engine_calls[1][1][1] = 0
    /\ engine_calls[1][1][2] = 1
    /\ processed_note_versions[1][1] = 2
    /\ faults = 0
    /\ \E c \in tell_calls : c.number = 1 /\ c.ver = 2

\* C10: for one command annotation, at most one study.tell call is issued
\* across all monitor instances.
C10_ExactlyOnce ==
    \A t \in Trials, v \in Versions :
        Cardinality({c \in tell_calls : c.number = t /\ c.ver = v}) <= 1

\* C11: after max_consecutive_errors cycles in a row ended by a whole-cycle
\* exception, the loop has slept 10 times the interval, both caches are
\* cleared and the error counter is back at 0.
C11_Cooldown ==
    \A m \in instances :
        (pc[m] = "while" /\ cycle_failures[m] = max_consecutive_errors)
        => /\ slept[m] = check_interval * 10
           /\ trial_id_cache[m] = [t \in Trials |-> 0]
           /\ ~cached_system_attrs[m].valid
           /\ consecutive_errors[m] = 0

\* C12: a whole-cycle exception never ends the polling loop: the loop exits
\* only with the running flag cleared, it is alive as long as stop() was not
\* called, and after a failed cycle it starts another one.
C12_LoopSurvives ==
    /\ [][\A m \in instances :
            (pc[m] # "finished" /\ pc'[m] = "finished") => ~running[m]]_vars
    /\ [](\A m \in instances : stop_calls[m] = 0 => pc[m] # "finished")
    /\ (cycle_failures[1] > 0 /\ pc[1] = "end_cycle" /\ stop_calls[1] = 0)
          ~> (pc[1] = "fetch_attrs" \/ stop_calls[1] > 0)

\* C12 witness: a cycle failed as a whole, stop() was never called, and the
\* loop is starting its next cycle.
C12_Witness ==
    /\ cycle_failures[1] >= 1
    /\ faults = 0
    /\ stop_calls[1] = 0
    /\ pc[1] = "fetch_attrs"

\* What a call of stop() on monitor m leaves as it is.
KeptByStop ==
    <<storeVars, configVars, pc, processed_note_versions, trial_id_cache,
      cached_system_attrs, cache_age, trials_to_check, excluded, trialLocals,
      loopVars, faults, histVars, cycle_failures, live_loops>>

\* C16: every call of stop(), on a monitor never started or already stopped
\* too, leaves the running flag false and touches nothing else; a call made
\* when the flag is already false leaves the monitor exactly as it was.
C16_StopIdempotent ==
    [][\A m \in instances :
         stop_calls'[m] # stop_calls[m]
         => /\ ~running'[m]
            /\ KeptByStop' = KeptByStop
            /\ ~running[m] => running' = running]_vars

\* C16 witness: stop() was called twice on a monitor that was never started.
C16_Witness ==
    /\ pc[1] = "nothread"
    /\ stop_calls[1] = 2
    /\ ~running[1]

\* C17: at most one thread runs monitor_loop for a monitor, after any
\* sequence of start() and stop() calls.
C17_OneLoop ==
    \A m \in instances :
        /\ live_loops[m] <= 1
        /\ live_loops[m] = 1 <=> pc[m] \notin {"nothread", "finished"}

\* C17 witness: the monitor was started, stopped, its loop ended, and it was
\* started again: one loop is alive.
C17_Witness ==
    /\ stop_calls[1] >= 1
    /\ running[1]
    /\ live_loops[1] = 1
    /\ pc[1] = "get_trials"

\* C18: once stop() has cleared the flag, the loop that is alive reaches
\* its end, and having seen the cleared flag it starts no new cycle.
C18_LoopExits ==
    /\ (~running[1] /\ pc[1] \notin {"nothread", "finished"}) ~> pc[1] = "finished"
    /\ [][\A m \in instances :
            (pc[m] = "while" /\ ~running[m] /\ pc'[m] # pc[m])
            => pc'[m] = "finished"]_vars

\* C18 witness: stop() was called during a cycle that handed a command to
\* the engine, and the loop has ended.
C18_Witness ==
    /\ pc[1] = "finished"
    /\ ~running[1]
    /\ live_loops[1] = 0
    /\ stop_calls[1] = 1
    /\ processed_note_versions[1][1] = 1

\* The positions of a thread that is processing a listed trial.
TrialPositions == {"check_trial", "read_state", "tell", "verify"}

\* C13: whatever happens while one listed trial is processed, an error
\* included, the cycle goes on with the next listed trial: a cycle ends only
\* when no listed trial is left.
C13_TrialIsolation ==
    /\ [][\A m \in instances :
            (pc[m] \in TrialPositions /\ trials_to_check'[m] # trials_to_check[m])
            => /\ trials_to_check'[m] = Tail(trials_to_check[m])
               /\ Len(trials_to_check[m]) > 1 => pc'[m] = "check_trial"]_vars
    /\ [](\A m \in instances :
            pc[m] \notin TrialPositions => trials_to_check[m] = <<>>)

\* C13 witness: the first listed trial hit an error in this cycle and the
\* second one is about to be processed.
C13_Witness ==
    /\ cycle_err[1]
    /\ faults = 0
    /\ pc[1] = "check_trial"
    /\ Len(trials_to_check[1]) = 1
    /\ Head(trials_to_check[1]).number = 2

\* The annotation body the engine of monitor m is working on.
EngineBody(m) == NoteBodyOf(cached_system_attrs[m], StoreTrialId(EngineTrial(m)))

\* The thread of monitor m is inside _change_trial_state.
InEngine(m) == pc[m] \in {"read_state", "tell", "verify"}

\* C14: for a body matched by both patterns the engine is asked for PRUNED,
\* and every study.tell call made for it asks for PRUNED.
C14_PruneWins ==
    /\ [](\A m \in instances :
            (InEngine(m) /\ Search(prune_pattern, EngineBody(m))
                         /\ Search(fail_pattern, EngineBody(m)))
            => new_state[m] = "PRUNED")
    /\ [][\A m \in instances :
            (pc[m] = "tell" /\ tell_calls' # tell_calls
             /\ Search(prune_pattern, EngineBody(m))
             /\ Search(fail_pattern, EngineBody(m)))
            => tell_calls' = tell_calls \cup {[TellCall(m) EXCEPT !.state = "PRUNED"]}]_vars

\* C14 witness: with the default patterns, study.tell was called with PRUNED
\* for a body that holds PRUNE and FAIL.
C14_Witness ==
    /\ prune_pattern = <<"PRUNE">>
    /\ pc[1] = "verify"
    /\ EngineBody(1) = <<"ok", "PRUNE", "FAIL">>
    /\ \E c \in tell_calls : c.ver = current_note_version[1] /\ c.state = "PRUNED"

\* C15: an empty annotation body is never handed to _change_trial_state,
\* whatever the patterns and the version.
C15_EmptyYieldsNone ==
    \A m \in instances : InEngine(m) => EngineBody(m) # <<>>

\* C19: with only_active_trials every study.tell call is made for a trial
\* that the engine read as RUNNING or WAITING.
C19_OnlyActive ==
    only_active_trials =>
        \A c \in tell_calls : c.read \in {"RUNNING", "WAITING"}

\* C20: for a listed trial whose annotation version is not above the last
\* seen one, the detector asks the store for nothing, not even the identifier.
C20_SkippedEntirely ==
    \A l \in log : l.event # "lookup_on_skip"

\* The states a cycle may inspect under the configured policy (lines 139-145).
PolicyStates ==
    IF only_active_trials THEN {"RUNNING", "WAITING"}
    ELSE {"RUNNING", "WAITING", "COMPLETE"}

\* C21: every trial a cycle inspects was listed in a state the policy calls
\* changeable; a trial the filter left out is not among them, so nothing is
\* compared, extracted or attempted for it.
C21_OnlyChangeableInspected ==
    \A m \in instances :
        \A i \in 1..Len(trials_to_check[m]) :
            /\ trials_to_check[m][i].state \in PolicyStates
            /\ \A e \in excluded[m] : e.number # trials_to_check[m][i].number

\* C21 witness: a cycle ends in which trial 1, PRUNED, was left out although
\* the snapshot holds a command for it in a version never seen, and nothing
\* was done for it.
C21_Witness ==
    /\ pc[1] = "end_cycle"
    /\ [number |-> 1, state |-> "PRUNED"] \in excluded[1]
    /\ NoteVersion(cached_system_attrs[1], StoreTrialId(1)) = 1
    /\ CommandTarget(prune_pattern, fail_pattern,
                     NoteBodyOf(cached_system_attrs[1], StoreTrialId(1))) = "FAIL"
    /\ processed_note_versions[1][1] < 1
    /\ engine_calls[1][1][1] = 0

\* The trial at the head of monitor m's listing, its version and body in the
\* snapshot, and the last version recorded for it.
HeadNumber(m) == Head(trials_to_check[m]).number
HeadVersion(m) == NoteVersion(cached_system_attrs[m], StoreTrialId(HeadNumber(m)))
HeadBody(m) == NoteBodyOf(cached_system_attrs[m], StoreTrialId(HeadNumber(m)))
HeadLast(m) == processed_note_versions[m][HeadNumber(m)]

\* The step in which _check_and_process_trial compares a version above the
\* last one, extracts the body without an error and finds no command.
InspectedNoCommand(m) ==
    /\ pc[m] = "check_trial"
    /\ trials_to_check'[m] # trials_to_check[m]
    /\ faults' = faults
    /\ IsNewVersion(HeadVersion(m), HeadLast(m))

\* The step in which _change_trial_state returns to _check_and_process_trial.
EngineReturns(m) ==
    /\ InEngine(m)
    /\ trials_to_check'[m] # trials_to_check[m]

\* C22 as stated: whenever an annotation with a version above the last seen
\* one was inspected, that version is recorded, with or without a command
\* and whatever the engine did.
C22_Original ==
    [][\A m \in instances :
         /\ InspectedNoCommand(m)
            => processed_note_versions'[m][HeadNumber(m)] = HeadVersion(m)
         /\ EngineReturns(m)
            => processed_note_versions'[m][HeadNumber(m)] = current_note_version[m]]_vars

\* C22 amended: the same, except for the empty note of version 0 on a trial
\* never recorded before, for which nothing is recorded.
C22_VersionRecorded ==
    [][\A m \in instances :
         /\ (InspectedNoCommand(m)
             /\ ~(HeadBody(m) = <<>> /\ HeadLast(m) = -1 /\ HeadVersion(m) = 0))
            => processed_note_versions'[m][HeadNumber(m)] = HeadVersion(m)
         /\ EngineReturns(m)
            => processed_note_versions'[m][HeadNumber(m)] = current_note_version[m]]_vars

\* C22 witness: a note edited to version 1 without a command was recorded,
\* and the next cycle finds the version not new.
C22_Witness ==
    /\ pc[1] = "check_trial"
    /\ HeadVersion(1) = 1
    /\ HeadLast(1) = 1
    /\ CommandTarget(prune_pattern, fail_pattern, HeadBody(1)) = NoState
    /\ engine_calls[1][1][1] = 0

\* The step in which study.tell raises.
TellRaises(m) ==
    /\ pc[m] = "tell"
    /\ LogLine(m, "tell_error") \in log'
    /\ LogLine(m, "tell_error") \notin log

\* The log lines the verification writes.
VerifyEvents == {"verified", "verify_mismatch", "could_not_verify"}

\* C23: when study.tell raises, the engine does not read the state again,
\* the version is recorded as seen, and study.tell is never called again for
\* that version.
C23_TellFailureConsumed ==
    /\ [][\A m \in instances :
            TellRaises(m)
            => /\ pc'[m] # "verify"
               /\ processed_note_versions'[m][EngineTrial(m)] = current_note_version[m]]_vars
    /\ [](\A l \in log :
            l.event = "tell_error"
            => /\ Cardinality(TellsFor(l.mon, l.number, l.ver)) = 1
               /\ engine_calls[l.mon][l.number][l.ver] = 1
               /\ \A k \in log :
                    (k.mon = l.mon /\ k.number = l.number /\ k.ver = l.ver)
                    => k.event \notin VerifyEvents)

\* C23 witness: study.tell raised for a version, the trial is still listed,
\* and a later cycle finds that version not new.
C23_Witness ==
    \E l \in log :
        /\ l.event = "tell_error"
        /\ pc[l.mon] = "check_trial"
        /\ HeadNumber(l.mon) = l.number
        /\ HeadVersion(l.mon) = l.ver
        /\ HeadLast(l.mon) = l.ver

\* The step of _check_and_process_trial in which _get_trial_id gives None.
NoTrialId(m) ==
    /\ pc[m] = "check_trial"
    /\ faults' < faults
    /\ trial_id_cache[m][HeadNumber(m)] = 0
    /\ trial_id_cache'[m][HeadNumber(m)] = 0

\* Monitor 1 ended a cycle in which the identifier of trial 1 was not found
\* while the snapshot held a command of version v it had not seen.
SkippedWithCommand(v) ==
    /\ pc[1] = "end_cycle"
    /\ cycle_err[1]
    /\ cycle_failures[1] = 0
    /\ trial_id_cache[1][1] = 0
    /\ cached_system_attrs[1].valid
    /\ NoteVersion(cached_system_attrs[1], StoreTrialId(1)) = v
    /\ CommandTarget(prune_pattern, fail_pattern,
                     NoteBodyOf(cached_system_attrs[1], StoreTrialId(1))) # NoState
    /\ IsNewVersion(v, processed_note_versions[1][1])
    /\ engine_calls[1][1][v] = 0

\* C24: when the identifier of a listed trial cannot be resolved, the trial
\* is left for that cycle: no state is changed, no identifier is cached, no
\* version is recorded, _change_trial_state is not entered; a command the
\* trial carries is handed to _change_trial_state in a later cycle unless the
\* trial stops being changeable or the annotation is edited again.
C24_SkippedThenRetried ==
    /\ [][\A m \in instances :
            NoTrialId(m)
            => /\ processed_note_versions'[m] = processed_note_versions[m]
               /\ trial_id_cache'[m] = trial_id_cache[m]
               /\ engine_calls' = engine_calls
               /\ tell_calls' = tell_calls
               /\ trialState' = trialState
               /\ pc'[m] \in {"check_trial", "end_cycle"}]_vars
    /\ \A v \in Versions :
            SkippedWithCommand(v)
            ~> \/ engine_calls[1][1][v] >= 1
               \/ trialState[1] \notin changeable_states
               \/ noteVer[1] # v

\* C24 witness: the identifier of trial 1 was not found in a cycle whose
\* snapshot held the latest command, and the trial is still changeable.
C24_Witness ==
    /\ SkippedWithCommand(1)
    /\ LatestCommand(1, 1)
    /\ trialState[1] \in changeable_states
    /\ processed_note_versions[1][1] = -1

\* The step of _check_and_process_trial that finds the empty initial note: a
\* trial never recorded, at version 0, with an empty body.
EmptyInitialStep(m) ==
    /\ pc[m] = "check_trial"
    /\ trials_to_check'[m] # trials_to_check[m]
    /\ faults' = faults
    /\ HeadLast(m) = -1
    /\ HeadVersion(m) = 0
    /\ HeadBody(m) = <<>>

\* The empty initial note changes nothing outside the monitor.
NoSideEffects ==
    /\ engine_calls' = engine_calls
    /\ tell_calls' = tell_calls
    /\ log' = log
    /\ trialState' = trialState

\* C25 as stated: the empty initial note has no side effect, and afterwards
\* version 0 of that trial no longer passes the version comparison.
C25_Original ==
    [][\A m \in instances :
        EmptyInitialStep(m)
        => /\ NoSideEffects
           /\ ~IsNewVersion(0, processed_note_versions'[m][HeadNumber(m)])]_vars

\* C25: the empty initial note has no side effect and nothing is recorded
\* for the trial, so that on a later cycle at version 0 the comparison passes
\* again and the same case applies.
C25_EmptyInitialNote ==
    [][\A m \in instances :
        EmptyInitialStep(m)
        => /\ NoSideEffects
           /\ pc'[m] \in {"check_trial", "end_cycle"}
           /\ processed_note_versions'[m][HeadNumber(m)] = -1
           /\ IsNewVersion(0, processed_note_versions'[m][HeadNumber(m)])]_vars

\* C25 witness: a second cycle meets trial 1 still at version 0 with an
\* empty body after the first cycle went through it without a fault.
C25_Witness ==
    /\ pc[1] = "check_trial"
    /\ slept[1] > 0
    /\ faults = MaxFaults
    /\ trial_id_cache[1][1] # 0
    /\ HeadNumber(1) = 1
    /\ HeadVersion(1) = 0
    /\ HeadBody(1) = <<>>
    /\ HeadLast(1) = -1
    /\ log = {}

\* The states a trial cannot leave.
TerminalStates == {"PRUNED", "FAIL"}

\* C26: _change_trial_state decides on the state the store holds when it
\* reads, not on the listed one: when the store holds PRUNED or FAIL at the
\* read, study.tell is not called, whatever the listing said; every
\* study.tell call follows a read of RUNNING, WAITING or COMPLETE.
C26_DecidesOnStoreState ==
    /\ [][\A m \in instances :
            (EngineDecides(m) /\ trialState[EngineTrial(m)] \in TerminalStates)
            => /\ pc'[m] # "tell"
               /\ tell_calls' = tell_calls]_vars
    /\ [](\A c \in tell_calls : c.read \in {"RUNNING", "WAITING", "COMPLETE"})
    /\ [](\A m \in instances :
            pc[m] = "tell" => current_state[m] \in {"RUNNING", "WAITING", "COMPLETE"})

\* C26 witness: trial 1 was listed as changeable, the optimizer ended it
\* before the engine read its state, and the engine refused the transition
\* without a study.tell call.
C26_Witness ==
    /\ tell_calls = {}
    /\ \E l \in log :
         /\ l.mon = 1
         /\ l.event = "illegal"
         /\ trialState[l.number] \in TerminalStates
         /\ processed_note_versions[1][l.number] = l.ver

\* A step of _check_and_process_trial on the head of the list.
CheckTrialStep(m) ==
    /\ pc[m] = "check_trial"
    /\ pc'[m] # "check_trial" \/ trials_to_check'[m] # trials_to_check[m]

\* C27: the version comparison comes first.  A trial whose version is not
\* above the recorded one is left without extraction, record or transition
\* attempt; _change_trial_state only runs for a version above the recorded
\* one, on the command parsed from the body of that trial.
C27_VersionCheckFirst ==
    /\ [][\A m \in instances :
            (CheckTrialStep(m) /\ HeadVersion(m) <= HeadLast(m))
            => /\ pc'[m] \in {"check_trial", "end_cycle"}
               /\ processed_note_versions' = processed_note_versions
               /\ engine_calls' = engine_calls
               /\ faults' = faults \/ trial_id_cache'[m][HeadNumber(m)] = 0]_vars
    /\ [](\A m \in instances :
            InEngine(m)
            => /\ current_note_version[m] > processed_note_versions[m][EngineTrial(m)]
               /\ new_state[m] # NoState
               /\ new_state[m] = CommandTarget(prune_pattern, fail_pattern, EngineBody(m)))

\* C27 witness: version 1 of trial 1 holds a command, it went through
\* _change_trial_state once, and a later cycle meets the same version.
C27_Witness ==
    /\ pc[1] = "check_trial"
    /\ HeadNumber(1) = 1
    /\ HeadVersion(1) = 1
    /\ HeadLast(1) = 1
    /\ CommandTarget(prune_pattern, fail_pattern, HeadBody(1)) # NoState
    /\ engine_calls[1][1][1] = 1

\* The version and the body monitor m's snapshot holds for trial n.
SnapshotVer(m, n) == cached_system_attrs[m].ver[StoreTrialId(n)]
SnapshotBody(m, n) == cached_system_attrs[m].body[StoreTrialId(n)]

\* C28: version and body come from one snapshot.  A snapshot never pairs the
\* store's current version with another body; the engine works on the
\* version of the snapshot and on the command parsed from that snapshot's
\* body; the version recorded is the snapshot's; and a study.tell call made
\* for the version the store still holds carries the command of the body the
\* store holds.
C28_VersionMatchesBody ==
    /\ [](\A m \in instances, t \in study_trials :
            cached_system_attrs[m].valid
            => /\ SnapshotVer(m, t) <= noteVer[t]
               /\ SnapshotVer(m, t) = noteVer[t] => SnapshotBody(m, t) = noteBody[t])
    /\ [](\A m \in instances :
            InEngine(m)
            => /\ current_note_version[m] = SnapshotVer(m, EngineTrial(m))
               /\ new_state[m] = CommandTarget(prune_pattern, fail_pattern,
                                               SnapshotBody(m, EngineTrial(m))))
    /\ [][\A m \in instances :
            (pc[m] \in {"check_trial", "read_state", "tell", "verify"}
             /\ processed_note_versions'[m] # processed_note_versions[m])
            => processed_note_versions'[m][HeadNumber(m)] = SnapshotVer(m, HeadNumber(m))]_vars
    /\ [](\A c \in tell_calls :
            c.ver = noteVer[c.number]
            => c.state = CommandTarget(prune_pattern, fail_pattern, noteBody[c.number]))

\* C28 witness: the engine works on version 1 of trial 1 while the dashboard
\* has already committed version 2 with another command.
C28_Witness ==
    /\ InEngine(1)
    /\ EngineTrial(1) = 1
    /\ current_note_version[1] = 1
    /\ noteVer[1] = 2
    /\ CommandTarget(prune_pattern, fail_pattern, noteBody[1]) \notin {NoState, new_state[1]}

\* C29: a command committed before a cycle starts is handed to
\* _change_trial_state in that cycle or in the next: no command of a
\* changeable trial is still unprocessed at the start of a third cycle.
C29_OneCycleLate ==
    \A m \in instances : starts_pending[m] <= 2

\* The positions of the thread inside check_for_note_changes.
InCycle == {"fetch_attrs", "get_trials", "check_trial", "read_state", "tell", "verify"}

\* C30: self.running is only looked at by the while test.  The thread ends
\* from that test and from nowhere else; a cycle that has started runs to
\* its end whatever stop() does meanwhile; and outside a cycle no listed
\* trial is left unprocessed.
C30_FlagCheckedPerIteration ==
    /\ [][\A m \in instances :
            (pc'[m] = "finished" /\ pc[m] # "finished")
            => (pc[m] = "while" /\ ~running[m])]_vars
    /\ [][\A m \in instances :
            (pc[m] \in InCycle /\ pc'[m] # pc[m])
            => pc'[m] \in InCycle \cup {"end_cycle"}]_vars
    /\ [](\A m \in instances :
            pc[m] \notin {"check_trial", "read_state", "tell", "verify"}
            => trials_to_check[m] = <<>>)
    /\ (pc[1] \in InCycle /\ ~running[1]) ~> (pc[1] = "while" /\ trials_to_check[1] = <<>>)

\* C30 witness: stop() cleared the flag while the cycle was in flight, and
\* the cycle went on to call study.tell and to verify.
C30_Witness ==
    /\ pc[1] = "verify"
    /\ ~running[1]
    /\ stop_calls[1] >= 1
    /\ \E c \in tell_calls : c.mon = 1 /\ c.number = EngineTrial(1)

\* The step in which the verification re-read is made and logged.
VerifyStep(m) ==
    /\ pc[m] = "verify"
    /\ log' # log

C32_StartMeansRunning ==
    \A m \in instances :
        last_call[m] = "start" => (running[m] /\ thread_is_alive(m))

\* C33: the loop never goes from one cycle into the next without sleeping.
\* A cycle is left only towards the pause, the pause lasts at least
\* check_interval seconds whether the cycle succeeded or failed, and a cycle
\* starts only from the while test that follows the pause.
C33_NoBusyLoop ==
    /\ [][\A m \in instances :
            (pc[m] \in InCycle /\ pc'[m] \notin InCycle) => pc'[m] = "end_cycle"]_vars
    /\ [][\A m \in instances :
            (pc[m] = "end_cycle" /\ pc'[m] # "end_cycle")
            => /\ pc'[m] = "while"
               /\ slept'[m] >= check_interval
               /\ slept'[m] > 0]_vars
    /\ [][\A m \in instances :
            (pc'[m] \in InCycle /\ pc[m] \notin InCycle)
            => (pc[m] = "while" /\ pc'[m] = "fetch_attrs")]_vars

\* C33 witness: two cycles in a row failed as a whole, and the loop has
\* slept the interval before its next while test.
C33_Witness ==
    /\ pc[1] = "while"
    /\ cycle_failures[1] = 2
    /\ slept[1] = check_interval

\* C34: a cycle that gets past line 133 works on the cached snapshot when
\* that is at most CACHE_TTL seconds old and on a snapshot just read from
\* the store otherwise; the rest of the cycle leaves the snapshot as it is.
C34_SnapshotPerCycle ==
    /\ [][\A m \in instances :
            (pc[m] = "fetch_attrs" /\ pc'[m] = "get_trials")
            => IF cached_system_attrs[m].valid /\ cache_age[m] <= CACHE_TTL
               THEN /\ cached_system_attrs'[m] = cached_system_attrs[m]
                    /\ cache_age'[m] = cache_age[m]
               ELSE /\ cached_system_attrs'[m] = StoreAttrs
                    /\ cache_age'[m] = 0]_vars
    /\ [][\A m \in instances :
            pc[m] \in {"get_trials", "check_trial", "read_state", "tell", "verify"}
            => cached_system_attrs'[m] = cached_system_attrs[m]]_vars

\* C34 witness: a cycle reuses a snapshot fetched 4 seconds before, which
\* the store has moved past; an older one was replaced before.
C34_Witness ==
    /\ pc[1] = "check_trial"
    /\ cache_age[1] = 4
    /\ cached_system_attrs[1].valid
    /\ SnapshotVer(1, 1) = 1
    /\ noteVer[1] = 2

\* C35: an entry of the identifier cache is the identifier the store gives
\* for that trial number; once _get_trial_id has resolved a trial the entry
\* is there for the engine's lookups; an entry only leaves by eviction; one
\* only appears for the trial being processed, and when the step that adds
\* it met a store fault, the fault was in the inspection that followed the
\* lookup, not in the lookup.
C35_IdentityCache ==
    /\ [](\A m \in instances, t \in Trials :
            trial_id_cache[m][t] \in {0, StoreTrialId(t)})
    /\ [](\A m \in instances :
            InEngine(m) => trial_id_cache[m][EngineTrial(m)] = StoreTrialId(EngineTrial(m)))
    /\ [][\A m \in instances, t \in Trials :
            /\ trial_id_cache[m][t] # 0
               => trial_id_cache'[m][t] \in {trial_id_cache[m][t], 0}
            /\ (trial_id_cache[m][t] = 0 /\ trial_id_cache'[m][t] # 0)
               => /\ pc[m] \in TrialPositions
                  /\ HeadNumber(m) = t
                  /\ faults' = faults \/ cycle_err'[m]]_vars

\* C35 witness: trial 1 was resolved and its version 2 recorded in an
\* earlier cycle, the store's fault is used up, and a later cycle finds the
\* entry in the cache.
C35_Witness ==
    /\ pc[1] = "check_trial"
    /\ HeadNumber(1) = 1
    /\ trial_id_cache[1][1] = StoreTrialId(1)
    /\ faults = 0
    /\ HeadLast(1) = HeadVersion(1)
    /\ HeadLast(1) = 2
    /\ engine_calls[1][1][1] = 0
    /\ engine_calls[1][1][2] = 0

\* The attributes and the thread position of monitor m.
MonitorState(m) ==
    <<processed_note_versions[m], trial_id_cache[m], cached_system_attrs[m],
      cache_age[m], running[m], pc[m], trials_to_check[m],
      consecutive_errors[m]>>

\* C36: with one monitor per study, no step changes the state of two
\* monitors; a monitor's step changes no trial state outside its own study
\* and every study.tell call is for a trial of the caller's study; and
\* whatever the other monitor does, fails at or hangs in, monitor 2 keeps
\* starting cycles with its flag set.
C36_StudiesIsolated ==
    /\ [][\A m \in instances :
            MonitorState(m)' # MonitorState(m)
            => /\ \A k \in instances \ {m} : MonitorState(k)' = MonitorState(k)
               /\ \A t \in study_trials \ study[m] : trialState'[t] = trialState[t]]_vars
    /\ [](\A c \in tell_calls : c.number \in study[c.mon])
    /\ [](running[2])
    /\ []<>(pc[2] = "fetch_attrs")

\* C36 witness: the first cycle of monitor 1 failed as a whole and its
\* thread has not moved since, with a command waiting in its study, while
\* monitor 2 has processed the command of its own study.
C36_Witness ==
    /\ pc[1] = "end_cycle"
    /\ cycle_failures[1] = 1
    /\ slept[1] = 0
    /\ LatestCommand(1, 1)
    /\ engine_calls[1][1][1] = 0
    /\ processed_note_versions[2][2] = 1
    /\ \E c \in tell_calls : c.mon = 2 /\ c.number = 2
    /\ trialState[1] # "PRUNED"

\* A step of the thread of monitor m.
MonitorStep(m) ==
    \/ pc'[m] # pc[m]
    \/ trials_to_check'[m] # trials_to_check[m]

\* C37: no step of a monitor changes an annotation body or version; the
\* only step of a monitor that changes the store is the study.tell call,
\* which sets the state of the trial being processed to the command's
\* target.
C37_ReaderOfAnnotations ==
    [][\A m \in instances :
        MonitorStep(m)
        => /\ noteVer' = noteVer
           /\ noteBody' = noteBody
           /\ trialState' # trialState
              => /\ pc[m] = "tell"
                 /\ TellCall(m) \in tell_calls'
                 /\ trialState' = [trialState EXCEPT ![EngineTrial(m)] = new_state[m]]]_vars

\* C37 witness: study.tell has set the state of trial 1, and the note that
\* held the command is in the store as the dashboard saved it.
C37_Witness ==
    /\ pc[1] = "verify"
    /\ \E c \in tell_calls :
         /\ c.mon = 1
         /\ trialState[c.number] = c.state
         /\ noteVer[c.number] = c.ver
         /\ CommandTarget(prune_pattern, fail_pattern, noteBody[c.number]) = c.state

\* The step in which the engine's read of the trial state fails.
StateReadFails(m) ==
    /\ pc[m] = "read_state"
    /\ faults' < faults

\* C38: when the engine cannot read the state of the trial it logs that,
\* calls study.tell neither then nor later for that version, and the version
\* is recorded as seen.
C38_UnreadableState ==
    /\ [][\A m \in instances :
            StateReadFails(m)
            => /\ pc'[m] # "tell"
               /\ tell_calls' = tell_calls
               /\ LogLine(m, "no_state") \in log'
               /\ processed_note_versions'[m][EngineTrial(m)] = current_note_version[m]]_vars
    /\ [](\A l \in log :
            l.event = "no_state"
            => /\ TellsFor(l.mon, l.number, l.ver) = {}
               /\ engine_calls[l.mon][l.number][l.ver] = 1)

\* C38 witness: the state of trial 1 could not be read for a command, and a
\* later cycle meets the same version of the still changeable trial.
C38_Witness ==
    /\ pc[1] = "check_trial"
    /\ \E l \in log :
         /\ l.mon = 1
         /\ l.event = "no_state"
         /\ HeadNumber(1) = l.number
         /\ HeadVersion(1) = l.ver
         /\ HeadLast(1) = l.ver
         /\ LatestCommand(l.number, l.ver)

\* C39: the version a monitor has recorded for a trial is never above the
\* version the store holds for it, nor above the one in the monitor's
\* snapshot, whether the snapshot was just fetched or reused.
C39_NeverAhead ==
    \A m \in instances, t \in study_trials :
        /\ processed_note_versions[m][t] <= noteVer[t]
        /\ cached_system_attrs[m].valid
           => /\ processed_note_versions[m][t] <= SnapshotVer(m, t)
              /\ SnapshotVer(m, t) <= noteVer[t]

\* C39 witness: a cycle that reused its snapshot has ended; version 1 is
\* recorded for trial 1 while the store is at version 2.
C39_Witness ==
    /\ pc[1] = "end_cycle"
    /\ cache_age[1] = 2
    /\ SnapshotVer(1, 1) = 1
    /\ processed_note_versions[1][1] = 1
    /\ noteVer[1] = 2

====
